---------------------------- MODULE Spec2Model ----------------------------
(***************************************************************************)
(* A model of jupiter-swap-api-client: the response classifier and the     *)
(* four client operations of lib.rs, the price request builders of         *)
(* price.rs and price_v1.rs, and the string-encoded Option<u64> codec      *)
(* field_as_string_option of price.rs.                                     *)
(*                                                                         *)
(* Three specifications share the module:                                  *)
(*   Spec        one client call at a time (lib.rs)                        *)
(*   SpecPrice   construction, refinement and serialization of a price     *)
(*               request (price.rs, price_v1.rs)                           *)
(*   SpecCodec   the codec field_as_string_option (price.rs)               *)
(***************************************************************************)
EXTENDS Integers, Sequences, FiniteSets, TLC

VARIABLES
    \* ---- field_as_string_option (SpecCodec)
    cphase,     \* "idle" | "serialized" | "roundtrip" | "received" | "decoded" | "reencoded"
    cval,       \* <<>> or <<v>>: the Option<u64> handed to serialize
    cemit,      \* the calls serialize made on the Serializer, in order
    cwire,      \* <<>> or <<token>>: the token the Deserializer holds
    cres,       \* <<>> or <<r>>: what deserialize returned
    cout,       \* the calls made on the Serializer when the decoded value is serialized again
    \* ---- PriceRequest / PriceV1Request (SpecPrice)
    pphase,     \* "none" | "built" | "serialized"
    preq,       \* <<>> or <<request>>: the request value the caller holds
    pctor,      \* history: the type, the constructor that made it and its argument
    pids0,      \* history: its ids as constructed
    pcalls,     \* history: the builder calls made on it since, in order
    ppayload,   \* <<>> or <<fields>>: the fields its Serialize implementation emitted
    \* ---- JupiterSwapApiClient (Spec)
    base_path,  \* the client's base address
    pc,         \* "idle" | "sent" | "raw" | "checked" | "done": where the call is
    op,         \* the operation called, "none" when idle
    input,      \* <<>> or <<arguments>>: what the caller passed
    request,    \* <<>> or <<request>>: the request as built
    response,   \* <<>> or <<response>>: the response received
    result,     \* <<>> or <<r>>: what the call returned
    events      \* history: the network and body operations of the call, in order

codecVars == <<cphase, cval, cemit, cwire, cres, cout>>
priceVars == <<pphase, preq, pctor, pids0, pcalls, ppayload>>

clientVars == <<base_path, pc, op, input, request, response, result, events>>

vars == <<codecVars, priceVars, clientVars>>

otherThanCodec == <<priceVars, clientVars>>
otherThanPrice == <<codecVars, clientVars>>
otherThanClient == <<codecVars, priceVars>>

---------------------------------------------------------------------------
(* Option and Result. *)

None == [some |-> FALSE]
Some(v) == [some |-> TRUE, val |-> v]
Ok(v) == [ok |-> TRUE, val |-> v]
Err(e) == [ok |-> FALSE, err |-> e]

---------------------------------------------------------------------------
(* u64: four 16-bit limbs, least significant first, so that the value      *)
(* keeps its 64-bit width.                                                 *)

LimbBase == 65536
NumLimbs == 4
Radix == 10

U64Zero == [i \in 1..NumLimbs |-> 0]
U64Max == [i \in 1..NumLimbs |-> LimbBase - 1]

DigitChars == <<"0", "1", "2", "3", "4", "5", "6", "7", "8", "9">>
IsDigit(c) == \E d \in 1..Radix : DigitChars[d] = c
DigitValue(c) == (CHOOSE d \in 1..Radix : DigitChars[d] = c) - 1

\* v * m + a on the limbs: the low 64 bits and the carry out of them.
RECURSIVE MulAddFrom(_, _, _, _)
MulAddFrom(v, m, carry, i) ==
    IF i > NumLimbs THEN [limbs |-> v, carry |-> carry]
    ELSE LET cur == v[i] * m + carry
         IN  MulAddFrom([v EXCEPT ![i] = cur % LimbBase], m, cur \div LimbBase, i + 1)

\* u64::checked_mul / u64::checked_add: None on overflow.
checked_mul(v, m) ==
    LET r == MulAddFrom(v, m, 0, 1) IN IF r.carry = 0 THEN Some(r.limbs) ELSE None
checked_add(v, a) ==
    LET r == MulAddFrom(v, 1, a, 1) IN IF r.carry = 0 THEN Some(r.limbs) ELSE None

\* v divided by 10: quotient limbs and remainder.
RECURSIVE DivRadixFrom(_, _, _)
DivRadixFrom(v, rem, i) ==
    IF i < 1 THEN [quot |-> v, rem |-> rem]
    ELSE LET cur == rem * LimbBase + v[i]
         IN  DivRadixFrom([v EXCEPT ![i] = cur \div Radix], cur % Radix, i - 1)

RECURSIVE ToDigits(_)
ToDigits(v) ==
    IF v = U64Zero THEN <<>>
    ELSE LET d == DivRadixFrom(v, 0, NumLimbs)
         IN  Append(ToDigits(d.quot), DigitChars[d.rem + 1])

\* A to_string that prints the low 32 bits only (v as u32).
to_string_truncated(v) ==
    LET low == [i \in 1..NumLimbs |-> IF i <= 2 THEN v[i] ELSE 0]
    IN  IF low = U64Zero THEN <<"0">> ELSE ToDigits(low)
\* u64::to_string: the decimal digits, most significant first, "0" for zero.
to_string(v) == IF v = U64Zero THEN <<"0">> ELSE ToDigits(v)

\* The digit loop of u64::from_str: each character must be a decimal digit and
\* neither the multiplication nor the addition may overflow.
RECURSIVE ParseDigits(_, _)
ParseDigits(acc, s) ==
    IF s = <<>> THEN Ok(acc)
    ELSE IF ~IsDigit(Head(s)) THEN Err("InvalidDigit")
    ELSE LET m == checked_mul(acc, Radix)
         IN  IF ~m.some THEN Err("PosOverflow")
             ELSE LET a == checked_add(m.val, DigitValue(Head(s)))
                  IN  IF ~a.some THEN Err("PosOverflow")
                      ELSE ParseDigits(a.val, Tail(s))

\* A parse whose addition wraps instead of being checked.
RECURSIVE WrappingDigits(_, _)
WrappingDigits(acc, s) ==
    IF s = <<>> THEN Ok(acc)
    ELSE IF ~IsDigit(Head(s)) THEN Err("InvalidDigit")
    ELSE LET m == checked_mul(acc, Radix)
         IN  IF ~m.some THEN Err("PosOverflow")
             ELSE WrappingDigits(MulAddFrom(m.val, 1, DigitValue(Head(s)), 1).limbs,
                                 Tail(s))
parse_wrapping(s) ==
    IF s = <<>> THEN Err("Empty")
    ELSE IF s = <<"+">> \/ s = <<"-">> THEN Err("InvalidDigit")
    ELSE IF Head(s) = "+" THEN WrappingDigits(U64Zero, Tail(s))
    ELSE WrappingDigits(U64Zero, s)
\* str::parse::<u64>: empty input and a lone sign are errors, one leading "+"
\* is skipped, a "-" is not a digit of an unsigned type.
parse(s) ==
    IF s = <<>> THEN Err("Empty")
    ELSE IF s = <<"+">> \/ s = <<"-">> THEN Err("InvalidDigit")
    ELSE IF Head(s) = "+" THEN ParseDigits(U64Zero, Tail(s))
    ELSE ParseDigits(U64Zero, s)

---------------------------------------------------------------------------
(* field_as_string_option.  A token is one value of the serde data model   *)
(* as a self-describing format carries it: unit/none (JSON null), a        *)
(* string, or something else (a number, a boolean).                        *)

TokNull == [t |-> "null"]
TokStr(s) == [t |-> "str", s |-> s]
TokNum == [t |-> "num"]
TokBool == [t |-> "bool"]

\* serialize: the calls made on the Serializer.  Some(v) is one
\* serialize_str of v's decimal form, None is one serialize_none.
serialize(value) ==
    IF value.some THEN <<TokStr(to_string(value.val))>> ELSE <<TokNull>>

\* Option::<String>::deserialize: null is None, a string is Some, any other
\* token is an invalid type.
OptionStringDeserialize(tok) ==
    IF tok.t = "null" THEN Ok(None)
    ELSE IF tok.t = "str" THEN Ok(Some(tok.s))
    ELSE Err("invalid type")

\* deserialize: the optional string, then s.parse() with its error replaced.
deserialize(tok) ==
    LET s == OptionStringDeserialize(tok)
    IN  IF ~s.ok THEN Err(s.err)
        ELSE IF s.val.some
             THEN LET p == parse(s.val.val)
                  IN  IF p.ok THEN Ok(Some(p.val)) ELSE Err("Failed to parse u64")
             ELSE Ok(None)


---------------------------------------------------------------------------
(* PriceRequest (price.rs) and PriceV1Request (price_v1.rs).               *)

\* Pubkey::to_string, on the keys the model draws: key k prints as the k-th name.
PubkeyNames == <<"MINT1", "MINT2", "MINT3", "MINT4">>
Pubkey_to_string(k) == PubkeyNames[k]

\* [String]::join(sep)
RECURSIVE join(_, _)
join(strs, sep) ==
    IF strs = <<>> THEN ""
    ELSE IF Len(strs) = 1 THEN strs[1]
    ELSE strs[1] \o sep \o join(Tail(strs), sep)

MapToString(mints) == [i \in 1..Len(mints) |-> Pubkey_to_string(mints[i])]

PriceRequest_new_single(token_mint) ==
    [ids |-> Pubkey_to_string(token_mint), vs_token |-> None, show_extra_info |-> None]

PriceRequest_new_multiple(token_mints) ==
    [ids |-> join(MapToString(token_mints), ","), vs_token |-> None,
     show_extra_info |-> None]

PriceRequest_with_vs_token(self, vs_token) ==
    [self EXCEPT !.vs_token = Some(Pubkey_to_string(vs_token))]

\* A with_extra_info that builds the request anew and loses vs_token.
with_extra_info_rebuilt(self, show_extra_info) ==
    [ids |-> self.ids, vs_token |-> None, show_extra_info |-> Some(show_extra_info)]
PriceRequest_with_extra_info(self, show_extra_info) ==
    [self EXCEPT !.show_extra_info = Some(show_extra_info)]

PriceV1Request_new_single(token_id) ==
    [ids |-> token_id, vs_token |-> None]

PriceV1Request_new_single_pubkey(token_mint) ==
    [ids |-> Pubkey_to_string(token_mint), vs_token |-> None]

PriceV1Request_new_multiple(token_ids) ==
    [ids |-> join(token_ids, ","), vs_token |-> None]

PriceV1Request_new_multiple_pubkeys(token_mints) ==
    [ids |-> join(MapToString(token_mints), ","), vs_token |-> None]

PriceV1Request_with_vs_token(self, vs_token) ==
    [self EXCEPT !.vs_token = Some(vs_token)]

PriceV1Request_with_vs_token_pubkey(self, vs_token) ==
    [self EXCEPT !.vs_token = Some(Pubkey_to_string(vs_token))]

\* The derived Serialize: one serialize_field per field, in declaration order,
\* under the camelCase name; a field marked skip_serializing_if =
\* "Option::is_none" is left out when it is None, and Option's own Serialize
\* writes Some(v) as v and None as unit.
TokBoolean(b) == [t |-> "bool", b |-> b]
Field(key, tok) == [key |-> key, val |-> tok]
Option_is_none(opt) == ~opt.some
OptionStringSerialize(opt) == IF opt.some THEN TokStr(opt.val) ELSE TokNull
OptionBoolSerialize(opt) == IF opt.some THEN TokBoolean(opt.val) ELSE TokNull

\* The derived Serialize without the skip_serializing_if attributes.
PriceRequest_serialize_no_skip(self) ==
    << Field("ids", TokStr(self.ids)),
       Field("vsToken", OptionStringSerialize(self.vs_token)),
       Field("showExtraInfo", OptionBoolSerialize(self.show_extra_info)) >>
PriceRequest_serialize(self) ==
    <<Field("ids", TokStr(self.ids))>>
    \o (IF Option_is_none(self.vs_token) THEN <<>>
        ELSE <<Field("vsToken", OptionStringSerialize(self.vs_token))>>)
    \o (IF Option_is_none(self.show_extra_info) THEN <<>>
        ELSE <<Field("showExtraInfo", OptionBoolSerialize(self.show_extra_info))>>)

PriceV1Request_serialize(self) ==
    <<Field("ids", TokStr(self.ids))>>
    \o (IF Option_is_none(self.vs_token) THEN <<>>
        ELSE <<Field("vsToken", OptionStringSerialize(self.vs_token))>>)

---------------------------------------------------------------------------
(* lib.rs: ClientError, the classifier and the request builders.           *)

\* ClientError, and the value a call returns on success.
RequestFailed(status, body) == [kind |-> "RequestFailed", status |-> status, body |-> body]
DeserializationError(e) == [kind |-> "DeserializationError", source |-> e]
Success(value) == [kind |-> "Ok", value |-> value]

\* #[from] reqwest::Error: what the ? after send().await turns a reqwest error into.
From_reqwest_Error(e) == DeserializationError(e)

\* An is_success that lets redirections through.
is_success_below_400(status) == 200 <= status /\ status < 400
\* StatusCode::is_success: 200..=299.
is_success(status) == 200 <= status /\ status < 300

\* A body is the text received: a JSON object, or text that is none.
TextBody(raw) == [kind |-> "text", raw |-> raw]
JsonBody(obj) == [kind |-> "json", obj |-> obj]

\* response.text().await.unwrap_or_default(): String::default() when the body
\* cannot be read.
text_unwrap_or_default(resp) == IF resp.readable THEN resp.content ELSE TextBody("")

\* check_is_success
check_is_success(resp) ==
    IF ~is_success(resp.status)
    THEN Err(RequestFailed(resp.status, text_unwrap_or_default(resp)))
    ELSE Ok(resp)

\* The member of a JSON object under a key: the tag of its value, "absent"
\* when the object has no such key.
Member(obj, k) == IF k \in DOMAIN obj THEN obj[k] ELSE "absent"
SchemaKeys(T) == DOMAIN T.required \cup DOMAIN T.optional

\* A json::<T>() that defaults what it cannot decode (as #[serde(default)]
\* on every field would).
json_defaulting(T, resp) ==
    IF ~resp.readable THEN Err("body")
    ELSE IF resp.content.kind # "json" THEN Err("decode")
    ELSE Ok([ty |-> T.name,
             fields |-> [k \in SchemaKeys(T) |->
                            IF Member(resp.content.obj, k) \in {"absent", "null"}
                            THEN "None" ELSE Member(resp.content.obj, k)]])
\* response.json::<T>(): the body is read and decoded as T.  A body that cannot
\* be read, text that is no JSON object, a required field that is missing or
\* of another type, and an optional field of another type are all errors;
\* keys T does not name are ignored; an optional field that is missing or null
\* is None.
json(T, resp) ==
    IF ~resp.readable THEN Err("body")
    ELSE IF resp.content.kind # "json" THEN Err("decode")
    ELSE LET obj == resp.content.obj
         IN  IF \E k \in DOMAIN T.required : Member(obj, k) = "absent"
             THEN Err("decode")
             ELSE IF \E k \in DOMAIN T.required : Member(obj, k) # T.required[k]
             THEN Err("decode")
             ELSE IF \E k \in DOMAIN T.optional :
                        Member(obj, k) \notin {"absent", "null", T.optional[k]}
             THEN Err("decode")
             ELSE Ok([ty |-> T.name,
                      fields |-> [k \in SchemaKeys(T) |->
                                     IF Member(obj, k) \in {"absent", "null"}
                                     THEN "None" ELSE Member(obj, k)]])

\* check_status_code_and_deserialize, after check_is_success let the response
\* through: json::<T>() with its error mapped to DeserializationError.
deserialize_response(T, resp) ==
    LET r == json(T, resp)
    IN  IF r.ok THEN Success(r.val) ELSE DeserializationError(r.err)

\* The response types.  PriceResponse is price.rs; data is a map and
\* timeTaken a number, both required.
NoFields == [k \in {} |-> "none"]
PriceResponse ==
    [name |-> "PriceResponse",
     required |-> [data |-> "obj", timeTaken |-> "num"],
     optional |-> NoFields]
QuoteResponse ==
    [name |-> "QuoteResponse",
     required |-> [inAmount |-> "str", outAmount |-> "str"],
     optional |-> NoFields]
SwapResponse ==
    [name |-> "SwapResponse",
     required |-> [swapTransaction |-> "str", lastValidBlockHeight |-> "num"],
     optional |-> NoFields]
SwapInstructionsResponseInternal ==
    [name |-> "SwapInstructionsResponseInternal",
     required |-> [swapInstruction |-> "obj"],
     optional |-> [cleanupInstruction |-> "obj"]]

\* From<SwapInstructionsResponseInternal> for SwapInstructionsResponse
SwapInstructionsResponse_from(internal) ==
    [ty |-> "SwapInstructionsResponse", fields |-> internal.fields]

\* reqwest: Client::get / Client::post start a request; query() appends the
\* pairs its argument serializes to; json() sets the body.
Client_get(url) == [method |-> "GET", url |-> url, query |-> <<>>, body |-> <<>>]
Client_post(url) == [method |-> "POST", url |-> url, query |-> <<>>, body |-> <<>>]
Pair(key, val) == [key |-> key, val |-> val]
\* A query() that replaces the pairs already there under the same keys.
RECURSIVE WithoutKeys(_, _)
WithoutKeys(pairs, keys) ==
    IF pairs = <<>> THEN <<>>
    ELSE IF Head(pairs).key \in keys THEN WithoutKeys(Tail(pairs), keys)
    ELSE <<Head(pairs)>> \o WithoutKeys(Tail(pairs), keys)
query_overwriting(rb, pairs) ==
    [rb EXCEPT !.query =
        WithoutKeys(@, {pairs[i].key : i \in 1..Len(pairs)}) \o pairs]
\* RequestBuilder::query: the pairs are appended to those already there.
RequestBuilder_query(rb, pairs) == [rb EXCEPT !.query = @ \o pairs]
RequestBuilder_json(rb, payload) == [rb EXCEPT !.body = <<payload>>]

\* serde_urlencoded on a struct: one pair per emitted field, a string as it
\* is, a boolean as true/false, a unit value as no pair.
RECURSIVE UrlEncodeFields(_)
UrlEncodeFields(fields) ==
    IF fields = <<>> THEN <<>>
    ELSE LET f == Head(fields)
             here == IF f.val.t = "str" THEN <<Pair(f.key, f.val.s)>>
                     ELSE IF f.val.t = "bool"
                          THEN <<Pair(f.key, IF f.val.b THEN "true" ELSE "false")>>
                          ELSE <<>>
         IN  here \o UrlEncodeFields(Tail(fields))

\* serde_urlencoded on an Option<HashMap<String, String>>: nothing for None,
\* one pair per entry for Some, in the order the map iterates (order).
UrlEncodeMap(extra_args, order) ==
    IF ~extra_args.some THEN <<>>
    ELSE [i \in 1..Len(order) |-> Pair(order[i], extra_args.val[order[i]])]

\* QuoteRequest without its quote_args, and its fields on the wire.
InternalQuoteRequest_from(quote_request) ==
    [input_mint |-> quote_request.input_mint,
     output_mint |-> quote_request.output_mint,
     amount |-> quote_request.amount,
     slippage_bps |-> quote_request.slippage_bps]
InternalQuoteRequest_serialize(self) ==
    << Field("inputMint", TokStr(Pubkey_to_string(self.input_mint))),
       Field("outputMint", TokStr(Pubkey_to_string(self.output_mint))),
       Field("amount", TokStr(ToString(self.amount))),
       Field("slippageBps", TokStr(ToString(self.slippage_bps))) >>
SwapRequest_serialize(self) ==
    <<Field("userPublicKey", TokStr(Pubkey_to_string(self.user_public_key)))>>

\* The URL of each operation.
quote_url(base) == base \o "/quote"
swap_url(base) == base \o "/swap"
\* (swap_instructions posting to the path of swap)
swap_instructions_url_of_swap(base) == base \o "/swap"
swap_instructions_url(base) == base \o "/swap-instructions"
get_prices_url(base) == base \o "/price/v2"

\* The request each operation builds before send().
quote_request_of(base, quote_request, order) ==
    LET url == quote_url(base)
        extra_args == quote_request.quote_args
        internal_quote_request == InternalQuoteRequest_from(quote_request)
    IN  RequestBuilder_query(
            RequestBuilder_query(Client_get(url),
                UrlEncodeFields(InternalQuoteRequest_serialize(internal_quote_request))),
            UrlEncodeMap(extra_args, order))

swap_request_of(base, swap_request, extra_args, order) ==
    RequestBuilder_json(
        RequestBuilder_query(Client_post(swap_url(base)), UrlEncodeMap(extra_args, order)),
        SwapRequest_serialize(swap_request))

swap_instructions_request_of(base, swap_request) ==
    RequestBuilder_json(Client_post(swap_instructions_url(base)),
                        SwapRequest_serialize(swap_request))

get_prices_request_of(base, price_request) ==
    RequestBuilder_query(Client_get(get_prices_url(base)),
                         UrlEncodeFields(PriceRequest_serialize(price_request)))

\* The type each operation decodes its response as.
ResponseType(o) ==
    CASE o = "quote" -> QuoteResponse
      [] o = "swap" -> SwapResponse
      [] o = "swap_instructions" -> SwapInstructionsResponseInternal
      [] o = "get_prices" -> PriceResponse

---------------------------------------------------------------------------
(* Inputs of the builders.                                                 *)

NumPubkeys == 2
MaxMints == 2
MaxBuilderCalls == 3

Pubkeys == 1..NumPubkeys
PubkeyLists == UNION {[1..n -> Pubkeys] : n \in 0..MaxMints}
TokenIds == {"SOL", "MINT1"}
TokenIdLists == UNION {[1..n -> TokenIds] : n \in 0..MaxMints}

\* Inputs of the client.
BasePaths == {"https://quote-api.jup.ag/v6", "http://localhost:8080"}
StatusSamples == {199, 200, 299, 300, 500}
JsonTags == {"null", "num", "str", "obj", "invalid"}
BagKeys == {"slippageBps", "onlyDirectRoutes"}
BagValues == {"1", "true"}
BagMaps == UNION {[S -> BagValues] : S \in SUBSET BagKeys}
ExtraArgs == {None} \cup {Some(m) : m \in BagMaps}
\* The orders a HashMap may iterate its keys in.
Orders(extra_args) ==
    IF ~extra_args.some THEN {<<>>}
    ELSE LET K == DOMAIN extra_args.val
         IN  {o \in [1..Cardinality(K) -> K] :
                 \A i, j \in 1..Cardinality(K) : o[i] = o[j] => i = j}
QuoteRequests ==
    [input_mint : {1}, output_mint : {2}, amount : {1000}, slippage_bps : {50, 100},
     quote_args : ExtraArgs]
SwapRequests == [user_public_key : Pubkeys]
PriceRequests ==
    {PriceRequest_new_single(m) : m \in Pubkeys}
    \cup {PriceRequest_new_multiple(ms) : ms \in PubkeyLists}
    \cup {PriceRequest_with_vs_token(PriceRequest_new_single(m), v) : m, v \in Pubkeys}
    \cup {PriceRequest_with_extra_info(PriceRequest_new_single(m), TRUE) : m \in Pubkeys}
Objects(keys) ==
    {o \in UNION {[S -> JsonTags] : S \in SUBSET (keys \cup {"unknown"})} :
        "unknown" \in DOMAIN o => o["unknown"] = "str"}
Contents(T) ==
    {TextBody("internal error"), TextBody("")}
    \cup {JsonBody(o) : o \in Objects(SchemaKeys(T))}
Responses(T) == [status : StatusSamples, readable : BOOLEAN, content : Contents(T)]

---------------------------------------------------------------------------
(* A price request from its construction to its serialization.             *)

InitPrice ==
    /\ pphase = "none"
    /\ preq = <<>>
    /\ pctor = [ty |-> "none", fn |-> "none", args |-> <<>>]
    /\ pids0 = ""
    /\ pcalls = <<>>
    /\ ppayload = <<>>

Constructed(ty, fn, args, made) ==
    /\ pphase = "none"
    /\ pphase' = "built"
    /\ preq' = <<made>>
    /\ pctor' = [ty |-> ty, fn |-> fn, args |-> args]
    /\ pids0' = made.ids
    /\ pcalls' = <<>>
    /\ UNCHANGED ppayload
    /\ UNCHANGED otherThanPrice

Refined(ty, call, made) ==
    /\ pphase = "built"
    /\ pctor.ty = ty
    /\ Len(pcalls) < MaxBuilderCalls
    /\ preq' = <<made>>
    /\ pcalls' = Append(pcalls, call)
    /\ UNCHANGED <<pphase, pctor, pids0, ppayload>>
    /\ UNCHANGED otherThanPrice

PriceNewSingle ==
    /\ pphase = "none"
    /\ \E m \in Pubkeys :
          Constructed("PriceRequest", "new_single", m, PriceRequest_new_single(m))

PriceNewMultiple ==
    /\ pphase = "none"
    /\ \E ms \in PubkeyLists :
          Constructed("PriceRequest", "new_multiple", ms, PriceRequest_new_multiple(ms))

PriceWithVsToken ==
    \E v \in Pubkeys :
        /\ preq # <<>>
        /\ Refined("PriceRequest", [field |-> "vs_token", str |-> Pubkey_to_string(v)],
                   PriceRequest_with_vs_token(preq[1], v))

PriceWithExtraInfo ==
    \E b \in BOOLEAN :
        /\ preq # <<>>
        /\ Refined("PriceRequest", [field |-> "show_extra_info", flag |-> b],
                   PriceRequest_with_extra_info(preq[1], b))

V1NewSingle ==
    /\ pphase = "none"
    /\ \E id \in TokenIds :
          Constructed("PriceV1Request", "new_single", id, PriceV1Request_new_single(id))

V1NewSinglePubkey ==
    /\ pphase = "none"
    /\ \E m \in Pubkeys :
          Constructed("PriceV1Request", "new_single_pubkey", m, PriceV1Request_new_single_pubkey(m))

V1NewMultiple ==
    /\ pphase = "none"
    /\ \E ids \in TokenIdLists :
          Constructed("PriceV1Request", "new_multiple", ids, PriceV1Request_new_multiple(ids))

V1NewMultiplePubkeys ==
    /\ pphase = "none"
    /\ \E ms \in PubkeyLists :
          Constructed("PriceV1Request", "new_multiple_pubkeys", ms, PriceV1Request_new_multiple_pubkeys(ms))

V1WithVsToken ==
    \E id \in TokenIds :
        /\ preq # <<>>
        /\ Refined("PriceV1Request", [field |-> "vs_token", str |-> id],
                   PriceV1Request_with_vs_token(preq[1], id))

V1WithVsTokenPubkey ==
    \E v \in Pubkeys :
        /\ preq # <<>>
        /\ Refined("PriceV1Request", [field |-> "vs_token", str |-> Pubkey_to_string(v)],
                   PriceV1Request_with_vs_token_pubkey(preq[1], v))

\* The request is serialized (as .query(&price_request) does for PriceRequest).
PriceSerialize ==
    /\ pphase = "built"
    /\ pctor.ty = "PriceRequest"
    /\ ppayload' = <<PriceRequest_serialize(preq[1])>>
    /\ pphase' = "serialized"
    /\ UNCHANGED <<preq, pctor, pids0, pcalls>>
    /\ UNCHANGED otherThanPrice

V1Serialize ==
    /\ pphase = "built"
    /\ pctor.ty = "PriceV1Request"
    /\ ppayload' = <<PriceV1Request_serialize(preq[1])>>
    /\ pphase' = "serialized"
    /\ UNCHANGED <<preq, pctor, pids0, pcalls>>
    /\ UNCHANGED otherThanPrice

\* The request and its payload go out of scope.
PriceDrop ==
    /\ pphase = "serialized"
    /\ pphase' = "none"
    /\ preq' = <<>>
    /\ pctor' = [ty |-> "none", fn |-> "none", args |-> <<>>]
    /\ pids0' = ""
    /\ pcalls' = <<>>
    /\ ppayload' = <<>>
    /\ UNCHANGED otherThanPrice

NextPrice ==
    \/ PriceNewSingle
    \/ PriceNewMultiple
    \/ PriceWithVsToken
    \/ PriceWithExtraInfo
    \/ V1NewSingle
    \/ V1NewSinglePubkey
    \/ V1NewMultiple
    \/ V1NewMultiplePubkeys
    \/ V1WithVsToken
    \/ V1WithVsTokenPubkey
    \/ PriceSerialize
    \/ V1Serialize
    \/ PriceDrop

---------------------------------------------------------------------------
(* Inputs of the codec.                                                    *)

MaxLimb == 1
MaxWireLen == 3

\* Limbs near both ends of the 16-bit range, and ten.
SampleLimbs == (0..MaxLimb) \cup {Radix} \cup ((LimbBase - 1 - MaxLimb)..(LimbBase - 1))
U64Samples == [1..NumLimbs -> SampleLimbs]
OptionSamples == {None} \cup {Some(v) : v \in U64Samples}

WireAlphabet == {"0", "1", "7", "+", "-", "x"}
ShortStrings == UNION {[1..n -> WireAlphabet] : n \in 0..MaxWireLen}

Chars(ds) == [i \in 1..Len(ds) |-> DigitChars[ds[i] + 1]]
\* 2^64 - 1 in decimal, and strings around it.
U64MaxDigits == Chars(<<1, 8, 4, 4, 6, 7, 4, 4, 0, 7, 3, 7, 0, 9, 5, 5, 1, 6, 1, 5>>)
BoundaryStrings ==
    { U64MaxDigits,
      Chars(<<1, 8, 4, 4, 6, 7, 4, 4, 0, 7, 3, 7, 0, 9, 5, 5, 1, 6, 1, 6>>),
      Chars(<<1, 8, 4, 4, 6, 7, 4, 4, 0, 7, 3, 7, 0, 9, 5, 5, 1, 6, 1, 4>>),
      Chars(<<9, 9, 9, 9, 9, 9, 9, 9, 9, 9, 9, 9, 9, 9, 9, 9, 9, 9, 9, 9>>),
      Chars(<<1, 0, 0, 0, 0, 0, 0, 0, 0, 0, 0, 0, 0, 0, 0, 0, 0, 0, 0, 0>>),
      Chars(<<1, 0, 0, 0, 0, 0, 0, 0, 0, 0, 0, 0, 0, 0, 0, 0, 0, 0, 0, 0, 0>>),
      <<"+">> \o U64MaxDigits,
      <<"-">> \o U64MaxDigits,
      <<"0", "0">> \o U64MaxDigits,
      U64MaxDigits \o <<"0">>,
      Chars(<<1, 7, 0, 0, 0, 0, 0, 0, 0, 0>>) }
WireTokens ==
    {TokNull, TokNum, TokBool} \cup {TokStr(s) : s \in ShortStrings \cup BoundaryStrings}

---------------------------------------------------------------------------
(* The codec as a state machine: a value is serialized and read back, or   *)
(* a token arrives from the remote service, is decoded, and the decoded    *)
(* value is serialized again.                                              *)

InitCodec ==
    /\ cphase = "idle"
    /\ cval = <<>>
    /\ cemit = <<>>
    /\ cwire = <<>>
    /\ cres = <<>>
    /\ cout = <<>>

\* serialize(value, serializer)
CodecSerialize ==
    /\ cphase = "idle"
    /\ \E value \in OptionSamples :
          /\ cval' = <<value>>
          /\ cemit' = serialize(value)
    /\ cphase' = "serialized"
    /\ UNCHANGED <<cwire, cres, cout, otherThanCodec>>

\* deserialize(deserializer) on what serialize wrote.
CodecReadBack ==
    /\ cphase = "serialized"
    /\ cemit # <<>>
    /\ cwire' = <<cemit[1]>>
    /\ cres' = <<deserialize(cemit[1])>>
    /\ cphase' = "roundtrip"
    /\ UNCHANGED <<cval, cemit, cout, otherThanCodec>>

\* A token of a response body reaches the field.
CodecReceive ==
    /\ cphase = "idle"
    /\ \E tok \in WireTokens : cwire' = <<tok>>
    /\ cphase' = "received"
    /\ UNCHANGED <<cval, cemit, cres, cout, otherThanCodec>>

\* deserialize(deserializer) on the received token.
CodecDeserialize ==
    /\ cphase = "received"
    /\ cres' = <<deserialize(cwire[1])>>
    /\ cphase' = "decoded"
    /\ UNCHANGED <<cval, cemit, cwire, cout, otherThanCodec>>

\* serialize of the value deserialize returned.
CodecReserialize ==
    /\ cphase = "decoded"
    /\ cres[1].ok
    /\ cout' = serialize(cres[1].val)
    /\ cphase' = "reencoded"
    /\ UNCHANGED <<cval, cemit, cwire, cres, otherThanCodec>>

CodecReset ==
    /\ cphase \in {"roundtrip", "decoded", "reencoded"}
    /\ cphase' = "idle"
    /\ cval' = <<>>
    /\ cemit' = <<>>
    /\ cwire' = <<>>
    /\ cres' = <<>>
    /\ cout' = <<>>
    /\ UNCHANGED otherThanCodec

NextCodec ==
    \/ CodecSerialize
    \/ CodecReadBack
    \/ CodecReceive
    \/ CodecDeserialize
    \/ CodecReserialize
    \/ CodecReset


---------------------------------------------------------------------------
(* One client call: the request is built and sent, send() fails or returns *)
(* a response, the status is checked, the body is decoded, the call        *)
(* returns.  The steps are the code between two awaits.                    *)

InitClient ==
    /\ base_path \in BasePaths
    /\ pc = "idle"
    /\ op = "none"
    /\ input = <<>>
    /\ request = <<>>
    /\ response = <<>>
    /\ result = <<>>
    /\ events = <<>>

\* A call up to its send(): the request is built and sent.
Sent(o, args, rb) ==
    /\ pc = "idle"
    /\ pc' = "sent"
    /\ op' = o
    /\ input' = <<args>>
    /\ request' = <<rb>>
    /\ events' = <<"send">>
    /\ UNCHANGED <<base_path, response, result>>
    /\ UNCHANGED otherThanClient

Quote ==
    /\ pc = "idle"
    /\ \E quote_request \in QuoteRequests :
        \E order \in Orders(quote_request.quote_args) :
            Sent("quote", [quote_request |-> quote_request, order |-> order],
                 quote_request_of(base_path, quote_request, order))

Swap ==
    /\ pc = "idle"
    /\ \E swap_request \in SwapRequests, extra_args \in ExtraArgs :
        \E order \in Orders(extra_args) :
            Sent("swap", [swap_request |-> swap_request, extra_args |-> extra_args,
                          order |-> order],
                 swap_request_of(base_path, swap_request, extra_args, order))

SwapInstructions ==
    /\ pc = "idle"
    /\ \E swap_request \in SwapRequests :
        Sent("swap_instructions", [swap_request |-> swap_request],
             swap_instructions_request_of(base_path, swap_request))

GetPrices ==
    /\ pc = "idle"
    /\ \E price_request \in PriceRequests :
        Sent("get_prices", [price_request |-> price_request],
             get_prices_request_of(base_path, price_request))

\* send().await? with an error: the call returns it through From.
SendFails ==
    /\ pc = "sent"
    /\ result' = <<From_reqwest_Error("request")>>
    /\ pc' = "done"
    /\ UNCHANGED <<base_path, op, input, request, response, events>>
    /\ UNCHANGED otherThanClient

\* send().await? with a response.
SendReturns ==
    /\ pc = "sent"
    /\ \E resp \in Responses(ResponseType(op)) : response' = <<resp>>
    /\ pc' = "raw"
    /\ UNCHANGED <<base_path, op, input, request, result, events>>
    /\ UNCHANGED otherThanClient

\* check_is_success(response).await?
CheckIsSuccess ==
    /\ pc = "raw"
    /\ LET r == check_is_success(response[1])
       IN  IF r.ok
           THEN /\ pc' = "checked"
                /\ events' = Append(events, "status")
                /\ UNCHANGED result
           ELSE /\ pc' = "done"
                /\ events' = events \o <<"status", "text">>
                /\ result' = <<r.err>>
    /\ UNCHANGED <<base_path, op, input, request, response>>
    /\ UNCHANGED otherThanClient

\* response.json::<T>().await.map_err(ClientError::DeserializationError), and
\* for swap_instructions .map(Into::into).
DeserializeBody ==
    /\ pc = "checked"
    /\ LET r == deserialize_response(ResponseType(op), response[1])
       IN  result' = IF op = "swap_instructions" /\ r.kind = "Ok"
                     THEN <<Success(SwapInstructionsResponse_from(r.value))>>
                     ELSE <<r>>
    /\ events' = Append(events, "json")
    /\ pc' = "done"
    /\ UNCHANGED <<base_path, op, input, request, response>>
    /\ UNCHANGED otherThanClient

\* The caller has the result; the client is ready for the next call.
Return ==
    /\ pc = "done"
    /\ pc' = "idle"
    /\ op' = "none"
    /\ input' = <<>>
    /\ request' = <<>>
    /\ response' = <<>>
    /\ result' = <<>>
    /\ events' = <<>>
    /\ UNCHANGED base_path
    /\ UNCHANGED otherThanClient

Next ==
    \/ Quote
    \/ Swap
    \/ SwapInstructions
    \/ GetPrices
    \/ SendFails
    \/ SendReturns
    \/ CheckIsSuccess
    \/ DeserializeBody
    \/ Return

Init == InitClient /\ InitPrice /\ InitCodec

Spec == Init /\ [][Next]_vars
SpecPrice == Init /\ [][NextPrice]_vars
SpecCodec == Init /\ [][NextCodec]_vars

---------------------------------------------------------------------------
(* The client's claims.                                                    *)

\* The 2xx range, stated on the number.
InSuccessRange(status) == status \in 200..299

\* A response whose body decodes as T, stated on the body alone: it can be
\* read, it is a JSON object, every required field is there with its type,
\* and every optional field that is there is null or has its type.
Decodable(T, resp) ==
    /\ resp.readable
    /\ resp.content.kind = "json"
    /\ \A k \in DOMAIN T.required :
          k \in DOMAIN resp.content.obj /\ resp.content.obj[k] = T.required[k]
    /\ \A k \in DOMAIN T.optional :
          k \in DOMAIN resp.content.obj =>
              resp.content.obj[k] \in {"null", T.optional[k]}

Count(seq, x) == Cardinality({i \in 1..Len(seq) : seq[i] = x})

\* C1: a response with a status outside 2xx ends in RequestFailed with that
\* status and the body as raw text ("" when the body cannot be read), whatever
\* the body holds; the body is never decoded on this path.
C1_NonSuccessIsRequestFailed ==
    (response # <<>> /\ ~InSuccessRange(response[1].status)) =>
        /\ pc \in {"raw", "done"}
        /\ Count(events, "json") = 0
        /\ pc = "done" =>
              result = << [kind |-> "RequestFailed",
                           status |-> response[1].status,
                           body |-> IF response[1].readable
                                    THEN response[1].content ELSE TextBody("")] >>
C1_Witness ==
    /\ pc = "done"
    /\ op = "get_prices"
    /\ response # <<>>
    /\ response[1].status = 500
    /\ Decodable(PriceResponse, response[1])
    /\ result[1].kind = "RequestFailed"
    /\ result[1].body = response[1].content

\* C2: a 2xx response whose body does not decode as the expected type ends in
\* DeserializationError; a success value is returned only when the whole body
\* decodes, and then it holds every required field.
C2_UndecodableIsDeserializationError ==
    (pc = "done" /\ response # <<>> /\ InSuccessRange(response[1].status)) =>
        IF Decodable(ResponseType(op), response[1])
        THEN /\ result[1].kind = "Ok"
             /\ \A k \in DOMAIN ResponseType(op).required :
                   result[1].value.fields[k] = ResponseType(op).required[k]
        ELSE result[1].kind = "DeserializationError"
C2_Witness ==
    /\ pc = "done"
    /\ op = "get_prices"
    /\ response # <<>>
    /\ response[1].status = 200
    /\ response[1].readable
    /\ response[1].content = JsonBody([data |-> "obj"])
    /\ result = <<DeserializationError("decode")>>

\* C3: a call that returns ends in a success value, RequestFailed or
\* DeserializationError; RequestFailed only after a response with a non-success
\* status, DeserializationError only after a response with a success status
\* whose body did not decode.
C3_OnlyTheseCauses ==
    pc = "done" =>
        /\ result[1].kind \in {"Ok", "RequestFailed", "DeserializationError"}
        /\ result[1].kind = "RequestFailed" =>
              response # <<>> /\ ~InSuccessRange(response[1].status)
        /\ result[1].kind = "DeserializationError" =>
              /\ response # <<>>
              /\ InSuccessRange(response[1].status)
              /\ ~Decodable(ResponseType(op), response[1])

\* The values a query carries under a key, in order.
RECURSIVE ValuesOf(_, _)
ValuesOf(pairs, k) ==
    IF pairs = <<>> THEN <<>>
    ELSE (IF Head(pairs).key = k THEN <<Head(pairs).val>> ELSE <<>>)
         \o ValuesOf(Tail(pairs), k)
\* The structured fields of a quote request as the query names them.
StructuredOf(quote_request) ==
    [inputMint |-> PubkeyNames[quote_request.input_mint],
     outputMint |-> PubkeyNames[quote_request.output_mint],
     amount |-> ToString(quote_request.amount),
     slippageBps |-> ToString(quote_request.slippage_bps)]
BagOf(quote_request) ==
    IF quote_request.quote_args.some THEN quote_request.quote_args.val ELSE NoFields

Endpoint(o) ==
    CASE o = "quote" -> [method |-> "GET", path |-> "/quote"]
      [] o = "swap" -> [method |-> "POST", path |-> "/swap"]
      [] o = "swap_instructions" -> [method |-> "POST", path |-> "/swap-instructions"]
      [] o = "get_prices" -> [method |-> "GET", path |-> "/price/v2"]

\* C9: a call sends exactly one request, with the method and path of its
\* operation, and no second one whatever the outcome; the status is checked
\* before the body is read, and the body is read at most once.
C9_OneRequest ==
    /\ Count(events, "send") <= 1
    /\ Count(events, "status") <= 1
    /\ Count(events, "text") + Count(events, "json") <= 1
    /\ \A i \in 1..Len(events) :
          events[i] \in {"text", "json"} => \E j \in 1..(i - 1) : events[j] = "status"
    /\ pc # "idle" =>
          /\ Count(events, "send") = 1
          /\ events[1] = "send"
          /\ request[1].method = Endpoint(op).method
          /\ request[1].url = base_path \o Endpoint(op).path
    /\ pc = "done" => result # <<>>
C9_Witness ==
    /\ pc = "done"
    /\ op = "swap_instructions"
    /\ events = <<"send", "status", "json">>
    /\ result = <<DeserializationError("decode")>>
    /\ request[1].method = "POST"

---------------------------------------------------------------------------
(* The price requests' claims.                                             *)

FieldKeys(fields) == {fields[i].key : i \in 1..Len(fields)}
\* Whether a builder call set the field, and the value the last such call gave.
WasSet(calls, field) == \E i \in 1..Len(calls) : calls[i].field = field
LastCall(calls, field) ==
    calls[CHOOSE i \in 1..Len(calls) :
             /\ calls[i].field = field
             /\ \A j \in (i + 1)..Len(calls) : calls[j].field # field]

\* C4: the payload has the key vsToken exactly when vs_token was set, and for
\* PriceRequest the key showExtraInfo exactly when show_extra_info was set; no
\* field is written as null; new_multiple of MINT1 and MINT2 with no vs token
\* writes ids as "MINT1,MINT2" and nothing else.
C4_AbsentIsOmitted ==
    pphase = "serialized" =>
        LET fields == ppayload[1]
        IN  /\ "ids" \in FieldKeys(fields)
            /\ "vsToken" \in FieldKeys(fields) <=> WasSet(pcalls, "vs_token")
            /\ "showExtraInfo" \in FieldKeys(fields) <=>
                  (pctor.ty = "PriceRequest" /\ WasSet(pcalls, "show_extra_info"))
            /\ \A i \in 1..Len(fields) : fields[i].val.t # "null"
            /\ (pctor.fn = "new_multiple" /\ pctor.ty = "PriceRequest"
                   /\ pctor.args = <<1, 2>> /\ pcalls = <<>>) =>
                  fields = <<[key |-> "ids", val |-> [t |-> "str", s |-> "MINT1,MINT2"]]>>
C4_Witness ==
    /\ pphase = "serialized"
    /\ pctor.ty = "PriceRequest"
    /\ pctor.fn = "new_multiple"
    /\ pctor.args = <<1, 2>>
    /\ pcalls = <<>>
    /\ ppayload = <<<<[key |-> "ids", val |-> [t |-> "str", s |-> "MINT1,MINT2"]]>>>>

\* C10: a constructor leaves every optional field absent; a builder call sets
\* its one field and leaves ids and the other field as they were, so each
\* optional field holds what the last call that set it gave, or is absent;
\* with_vs_token and with_extra_info commute.
C10_BuildersSetOneField ==
    pphase # "none" =>
        LET r == preq[1]
        IN  /\ r.ids = pids0
            /\ r.vs_token = IF WasSet(pcalls, "vs_token")
                            THEN [some |-> TRUE, val |-> LastCall(pcalls, "vs_token").str]
                            ELSE [some |-> FALSE]
            /\ pctor.ty = "PriceV1Request" => DOMAIN r = {"ids", "vs_token"}
            /\ pctor.ty = "PriceRequest" =>
                  /\ DOMAIN r = {"ids", "vs_token", "show_extra_info"}
                  /\ r.show_extra_info =
                        IF WasSet(pcalls, "show_extra_info")
                        THEN [some |-> TRUE,
                              val |-> LastCall(pcalls, "show_extra_info").flag]
                        ELSE [some |-> FALSE]
                  /\ \A v \in Pubkeys, b \in BOOLEAN :
                        PriceRequest_with_vs_token(PriceRequest_with_extra_info(r, b), v)
                            = PriceRequest_with_extra_info(PriceRequest_with_vs_token(r, v), b)
C10_Witness ==
    /\ pphase = "built"
    /\ pctor.ty = "PriceRequest"
    /\ Len(pcalls) = 3
    /\ pcalls[1].field = "vs_token"
    /\ pcalls[2].field = "show_extra_info"
    /\ pcalls[3].field = "vs_token"
    /\ pcalls[1].str # pcalls[3].str
    /\ preq[1].vs_token = Some(pcalls[3].str)
    /\ preq[1].show_extra_info = Some(pcalls[2].flag)

---------------------------------------------------------------------------
(* The codec's claims.  What a decimal u64 is, stated on the characters    *)
(* alone.                                                                  *)

AllDigits(s) == \A i \in 1..Len(s) : IsDigit(s[i])
StripPlus(s) == IF s # <<>> /\ Head(s) = "+" THEN Tail(s) ELSE s
RECURSIVE StripZeros(_)
StripZeros(s) == IF Len(s) > 1 /\ Head(s) = "0" THEN StripZeros(Tail(s)) ELSE s
\* The string without a leading "+" and without redundant leading zeros.
Canonical(s) == StripZeros(StripPlus(s))
\* a <= b for digit strings of the same length.
RECURSIVE DigitsLeq(_, _)
DigitsLeq(a, b) ==
    IF a = <<>> THEN TRUE
    ELSE IF DigitValue(Head(a)) < DigitValue(Head(b)) THEN TRUE
    ELSE IF DigitValue(Head(a)) > DigitValue(Head(b)) THEN FALSE
    ELSE DigitsLeq(Tail(a), Tail(b))
\* An optional "+", then one or more digits, worth at most 2^64 - 1.
IsDecimalU64(s) ==
    LET d == StripPlus(s)
        c == StripZeros(d)
    IN  /\ d # <<>>
        /\ AllDigits(d)
        /\ \/ Len(c) < Len(U64MaxDigits)
           \/ Len(c) = Len(U64MaxDigits) /\ DigitsLeq(c, U64MaxDigits)
IsCanonical(s) == s # <<>> /\ AllDigits(s) /\ Canonical(s) = s

\* C5: for every u64 v, 0 and 2^64 - 1 included, deserialize(serialize(Some(v)))
\* is Some(v), and deserialize(serialize(None)) is None.
C5_RoundTrip ==
    cphase = "roundtrip" => cres = <<Ok(cval[1])>>
C5_Witness ==
    /\ cphase = "roundtrip"
    /\ cval = <<Some(U64Max)>>
    /\ cwire = <<TokStr(U64MaxDigits)>>
    /\ cres = <<Ok(Some(U64Max))>>

\* C6: serialize of None emits nothing at all, neither a key nor a null.
C6_NoneOmitted ==
    (cphase = "serialized" /\ cval = <<None>>) => cemit = <<>>

\* C7 as claimed: whenever deserialize accepts a string s, serializing the value
\* gives back exactly s, and every string that is no valid u64 is rejected.
C7_ByteForByte ==
    (cphase \in {"decoded", "reencoded"} /\ cwire[1].t = "str") =>
        /\ cres[1].ok <=> IsDecimalU64(cwire[1].s)
        /\ cphase = "reencoded" => cout = cwire
\* C7 as amended: deserialize accepts exactly an optional "+" followed by one or
\* more decimal digits worth at most 2^64 - 1; serializing the accepted value
\* gives s without its leading "+" and redundant leading zeros, which is s itself
\* exactly when s has neither.
C7_Canonical ==
    (cphase \in {"decoded", "reencoded"} /\ cwire[1].t = "str") =>
        /\ cres[1].ok <=> IsDecimalU64(cwire[1].s)
        /\ cres[1].ok => cres[1].val.some
        /\ cphase = "reencoded" =>
              /\ cout = <<TokStr(Canonical(cwire[1].s))>>
              /\ (cout = cwire) <=> IsCanonical(cwire[1].s)
C7_Witness ==
    /\ cphase = "reencoded"
    /\ cwire = <<TokStr(<<"+", "0", "7">>)>>
    /\ cout = <<TokStr(<<"7">>)>>

===========================================================================
